---- MODULE Spec2Model ----
(***************************************************************************)
(* Model of vimput-formatter.py: the formatter registry, find_formatter,   *)
(* the command built by format_code, the subprocess invocation and its     *)
(* classification, the POST /format handler, and the Unix double-fork      *)
(* launch of start_background with its PID handoff through a pipe. The     *)
(* Windows branch of start_background, one detached Popen whose pid is     *)
(* returned as it is, has no handoff and is left out.                      *)
(*                                                                         *)
(* Text that the program inspects character by character (the formatter's  *)
(* standard output, the bytes in the pipe) is a sequence of one-character  *)
(* strings; text the program only passes along is a string.                *)
(***************************************************************************)
EXTENDS Integers, Sequences, FiniteSets, TLC

VARIABLES
    installed,    \* programs shutil.which finds on the search path
    pc,           \* position of the /format request: idle, spawning, running, done
    body,         \* the JSON body of the request being handled
    formatter,    \* what find_formatter returned to format_code
    cmdline,      \* full_cmd of format_code
    proc,         \* the formatter subprocess: state, stdout so far, stderr, returncode
    resp,         \* what the HTTP client receives
    lpc,          \* launcher position in main / start_background
    rpc,          \* relay (first child) position
    spc,          \* service (grandchild) position
    pipeBuf,      \* bytes written to the pipe and not yet read
    writers,      \* processes holding the pipe's write end open
    readers,      \* processes holding the pipe's read end open
    pids,         \* process identifiers of launcher, relay and service (0: not created)
    realPid,      \* real_pid in the launcher: the decoded, stripped pipe data
    handle,       \* the value start_background returned (0: none)
    wrote,        \* the relay has written the service's identifier to the pipe
    failed        \* the launch step whose system call raised OSError ("none" if none)

fmtVars == <<installed, pc, body, formatter, cmdline, proc, resp>>
launchVars == <<lpc, rpc, spc, pipeBuf, writers, readers, pids, realPid, handle, wrote, failed>>
vars == <<installed, pc, body, formatter, cmdline, proc, resp,
          lpc, rpc, spc, pipeBuf, writers, readers, pids, realPid, handle, wrote, failed>>

(***************************************************************************)
(* Bounds                                                                  *)
(***************************************************************************)
MaxInstalled == 2    \* programs present on the host at one time
MaxOut == 2          \* characters a formatter writes to its standard output
MaxPid == 11         \* largest process identifier the host hands out

(***************************************************************************)
(* Text helpers                                                            *)
(***************************************************************************)
RECURSIVE Join(_)
\* the string made of a sequence of characters
Join(s) == IF s = <<>> THEN "" ELSE Head(s) \o Join(Tail(s))

Whitespace == {" ", "\t", "\n", "\r", "\f"}

RECURSIVE LStrip(_)
LStrip(s) == IF s # <<>> /\ Head(s) \in Whitespace THEN LStrip(Tail(s)) ELSE s

RECURSIVE RStrip(_)
RStrip(s) ==
    IF s # <<>> /\ s[Len(s)] \in Whitespace THEN RStrip(SubSeq(s, 1, Len(s) - 1)) ELSE s

\* str.strip()
Strip(s) == RStrip(LStrip(s))

DigitChar(d) ==
    CASE d = 0 -> "0" [] d = 1 -> "1" [] d = 2 -> "2" [] d = 3 -> "3" [] d = 4 -> "4"
      [] d = 5 -> "5" [] d = 6 -> "6" [] d = 7 -> "7" [] d = 8 -> "8" [] d = 9 -> "9"

DigitValue(c) ==
    CASE c = "0" -> 0 [] c = "1" -> 1 [] c = "2" -> 2 [] c = "3" -> 3 [] c = "4" -> 4
      [] c = "5" -> 5 [] c = "6" -> 6 [] c = "7" -> 7 [] c = "8" -> 8 [] c = "9" -> 9

RECURSIVE NatChars(_)
NatChars(n) == IF n < 10 THEN <<DigitChar(n)>> ELSE Append(NatChars(n \div 10), DigitChar(n % 10))

\* str(n) of an integer, as characters
IntChars(n) == IF n < 0 THEN <<"-">> \o NatChars(0 - n) ELSE NatChars(n)

RECURSIVE ParseNat(_, _)
ParseNat(s, acc) == IF s = <<>> THEN acc ELSE ParseNat(Tail(s), 10 * acc + DigitValue(Head(s)))

\* int(text) of a non-empty run of decimal digits
ParseInt(s) == ParseNat(s, 0)

(***************************************************************************)
(* JSON values of a request                                                *)
(***************************************************************************)
JAbsent == [t |-> "absent"]
JNull == [t |-> "null"]
JStr(s) == [t |-> "str", s |-> s]
JInt(n) == [t |-> "int", n |-> n]
JObj(indentType, indentSize) == [t |-> "obj", indentType |-> indentType, indentSize |-> indentSize]

\* dict.get(key, default) on a value that is present or absent
GetOr(v, default) == IF v = JAbsent THEN default ELSE v

\* str(value)
PyStr(v) ==
    CASE v.t = "int" -> Join(IntChars(v.n))
      [] v.t = "str" -> v.s
      [] v.t = "null" -> "None"

(***************************************************************************)
(* The registry                                                            *)
(***************************************************************************)
Cand(cmd, args) == [cmd |-> cmd, args |-> args]

FORMATTERS ==
    [javascript |-> << Cand("prettier", <<"--parser", "babel", "--stdin-filepath", "file.js">>),
                       Cand("biome", <<"format", "--stdin-file-path", "file.js">>) >>,
     typescript |-> << Cand("prettier", <<"--parser", "typescript", "--stdin-filepath", "file.ts">>),
                       Cand("biome", <<"format", "--stdin-file-path", "file.ts">>) >>,
     jsx |-> << Cand("prettier", <<"--parser", "babel", "--stdin-filepath", "file.jsx">>),
                Cand("biome", <<"format", "--stdin-file-path", "file.jsx">>) >>,
     tsx |-> << Cand("prettier", <<"--parser", "typescript", "--stdin-filepath", "file.tsx">>),
                Cand("biome", <<"format", "--stdin-file-path", "file.tsx">>) >>,
     python |-> << Cand("ruff", <<"format", "-">>), Cand("black", <<"-">>) >>,
     css |-> << Cand("prettier", <<"--parser", "css", "--stdin-filepath", "file.css">>) >>,
     html |-> << Cand("prettier", <<"--parser", "html", "--stdin-filepath", "file.html">>) >>,
     json |-> << Cand("prettier", <<"--parser", "json", "--stdin-filepath", "file.json">>),
                 Cand("biome", <<"format", "--stdin-file-path", "file.json">>) >>,
     markdown |-> << Cand("prettier", <<"--parser", "markdown", "--stdin-filepath", "file.md">>) >>,
     yaml |-> << Cand("prettier", <<"--parser", "yaml", "--stdin-filepath", "file.yaml">>) >>,
     graphql |-> << Cand("prettier", <<"--parser", "graphql", "--stdin-filepath", "file.graphql">>) >>,
     bash |-> << Cand("shfmt", <<"-">>) >>,
     sql |-> << Cand("sqlfluff", <<"fix", "-f", "ansi", "-">>), Cand("sql-formatter", <<>>) >>,
     go |-> << Cand("gofmt", <<>>) >>,
     rust |-> << Cand("rustfmt", <<>>) >>,
     java |-> << Cand("google-java-format", <<"-">>) >>,
     c |-> << Cand("clang-format", <<>>) >>,
     cpp |-> << Cand("clang-format", <<>>) >>]

Languages == DOMAIN FORMATTERS

Programs == UNION {{FORMATTERS[l][i].cmd : i \in 1..Len(FORMATTERS[l])} : l \in Languages}

NoFormatter == Cand("", <<>>)

\* shutil.which(cmd) is truthy
Which(cmd) == cmd \in installed

RECURSIVE LastAvailable(_)
\* variant: a later available candidate overrides an earlier one
LastAvailable(cands) ==
    IF cands = <<>> THEN NoFormatter
    ELSE IF LastAvailable(Tail(cands)) # NoFormatter THEN LastAvailable(Tail(cands))
    ELSE IF Which(Head(cands).cmd) THEN Head(cands)
    ELSE NoFormatter

RECURSIVE FirstAvailable(_)
FirstAvailable(cands) ==
    IF cands = <<>> THEN NoFormatter
    ELSE IF Which(Head(cands).cmd) THEN Head(cands)
    ELSE FirstAvailable(Tail(cands))

find_formatter(language) ==
    IF language \notin Languages THEN NoFormatter ELSE FirstAvailable(FORMATTERS[language])

(***************************************************************************)
(* format_code                                                             *)
(***************************************************************************)
\* the (success, result, error) tuple format_code returns; error "" is None
Result(success, result, error) == [success |-> success, result |-> result, error |-> error]

\* variant: the prettier fragments are added whatever the program
IndentArgsUndispatched(cmd, indent_type, indent_size) ==
    <<"--tab-width", PyStr(indent_size)>>
        \o (IF indent_type = JStr("tabs") THEN <<"--use-tabs">> ELSE <<>>)

\* "Add indent options for formatters that support them"
IndentArgs(cmd, indent_type, indent_size) ==
    CASE cmd = "prettier" ->
            <<"--tab-width", PyStr(indent_size)>>
                \o (IF indent_type = JStr("tabs") THEN <<"--use-tabs">> ELSE <<>>)
      [] cmd = "biome" ->
            <<"--indent-width", PyStr(indent_size)>>
                \o (IF indent_type = JStr("tabs") THEN <<"--indent-style", "tab">> ELSE <<>>)
      [] cmd = "shfmt" ->
            <<"-i", IF indent_type = JStr("spaces") THEN PyStr(indent_size) ELSE "0">>
      [] cmd = "clang-format" ->
            << "--style={IndentWidth: " \o PyStr(indent_size) \o ", UseTab: "
                 \o (IF indent_type = JStr("tabs") THEN "Always" ELSE "Never") \o "}" >>
      [] cmd = "rustfmt" ->
            <<"--config", "tab_spaces=" \o PyStr(indent_size)>>
                \o (IF indent_type = JStr("tabs") THEN <<"--config", "hard_tabs=true">> ELSE <<>>)
      [] OTHER -> <<>>

\* full_cmd for a resolved formatter and the options object of the request
BuildCommand(found, options) ==
    LET indent_type == GetOr(options.indentType, JStr("spaces"))
        indent_size == GetOr(options.indentSize, JInt(2))
    IN  <<found.cmd>> \o found.args \o IndentArgs(found.cmd, indent_type, indent_size)

\* variant: the failure carries no text
NotFoundResultEmpty(code, language) == Result(FALSE, "", "No formatter found for " \o language)

NotFoundResult(code, language) == Result(FALSE, code, "No formatter found for " \o language)

\* variant: a non-zero exit status is always a failure
ClassifyStrict(code, cmd, returncode, stdout, stderr) ==
    IF returncode = 0 THEN Result(TRUE, Join(stdout), "")
    ELSE Result(FALSE, code,
                IF stderr # "" THEN stderr
                ELSE cmd \o " exited with code " \o Join(IntChars(returncode)))

\* the outcome once subprocess.run has returned a CompletedProcess
Classify(code, cmd, returncode, stdout, stderr) ==
    IF returncode = 0 THEN Result(TRUE, Join(stdout), "")
    ELSE IF stdout # <<>> /\ Strip(stdout) # <<>> THEN Result(TRUE, Join(stdout), "")
    ELSE Result(FALSE, code,
                IF stderr # "" THEN stderr
                ELSE cmd \o " exited with code " \o Join(IntChars(returncode)))

\* variant: the output captured before the deadline is handed back
TimedOutResultPartial(code, stdout) == Result(FALSE, Join(stdout), "Formatter timed out")

\* except subprocess.TimeoutExpired; stdout is what the process had written by then
TimedOutResult(code, stdout) == Result(FALSE, code, "Formatter timed out")

\* except Exception, for the FileNotFoundError Popen raises
SpawnFailedResult(code, cmd) ==
    Result(FALSE, code, "[Errno 2] No such file or directory: '" \o cmd \o "'")

(***************************************************************************)
(* The /format handler                                                     *)
(***************************************************************************)
NoBody == [t |-> "none"]
Body(code, language, options) ==
    [t |-> "obj", code |-> code, language |-> language, options |-> options]

NoResp == [kind |-> "none"]
ClientError(message) == [kind |-> "json", status |-> 400, success |-> FALSE, error |-> message]
\* jsonify(response): the error key is present only for a truthy error
Jsonify(r) ==
    [kind |-> "json", status |-> 200, success |-> r.success, result |-> r.result,
     hasError |-> r.error # "", error |-> r.error]
\* an exception left the view function: Flask answers 500
Unhandled(exc) == [kind |-> "exception", status |-> 500, exc |-> exc]

NoProc == [state |-> "none", stdout |-> <<>>, stderr |-> "", returncode |-> 0]

\* data.get("options", {})
OptionsOf(b) == GetOr(b.options, JObj(JAbsent, JAbsent))

Install(p) ==
    /\ p \notin installed
    /\ Cardinality(installed) < MaxInstalled
    /\ installed' = installed \cup {p}
    /\ UNCHANGED <<pc, body, formatter, cmdline, proc, resp>>
    /\ UNCHANGED launchVars

Uninstall(p) ==
    /\ p \in installed
    /\ installed' = installed \ {p}
    /\ UNCHANGED <<pc, body, formatter, cmdline, proc, resp>>
    /\ UNCHANGED launchVars

\* format_endpoint, and format_code up to the call of subprocess.run
FormatRequest(b) ==
    /\ spc = "serving"
    /\ pc = "idle"
    /\ body' = b
    /\ proc' = NoProc
    /\ formatter' = IF b = NoBody \/ b.language = "" THEN NoFormatter
                     ELSE find_formatter(b.language)
    /\ IF b = NoBody
       THEN /\ resp' = ClientError("No JSON body")
            /\ pc' = "done"
            /\ cmdline' = <<>>
       ELSE IF b.language = ""
       THEN /\ resp' = ClientError("Language is required")
            /\ pc' = "done"
            /\ cmdline' = <<>>
       ELSE IF formatter' = NoFormatter
       THEN /\ resp' = Jsonify(NotFoundResult(b.code, b.language))
            /\ pc' = "done"
            /\ cmdline' = <<>>
       ELSE IF OptionsOf(b).t # "obj"
       THEN /\ resp' = Unhandled("AttributeError")
            /\ pc' = "done"
            /\ cmdline' = <<>>
       ELSE /\ resp' = NoResp
            /\ pc' = "spawning"
            /\ cmdline' = BuildCommand(formatter', OptionsOf(b))
    /\ UNCHANGED installed
    /\ UNCHANGED launchVars

\* subprocess.run starts the program, or Popen raises because it is gone
Spawn ==
    /\ pc = "spawning"
    /\ IF Which(formatter.cmd)
       THEN /\ proc' = [proc EXCEPT !.state = "running"]
            /\ pc' = "running"
            /\ resp' = resp
       ELSE /\ proc' = proc
            /\ pc' = "done"
            /\ resp' = Jsonify(SpawnFailedResult(body.code, formatter.cmd))
    /\ UNCHANGED <<installed, body, formatter, cmdline>>
    /\ UNCHANGED launchVars

\* the formatter writes one character to its standard output (text=True: the
\* characters are those of the decoded text)
ProcWrite(c) ==
    /\ pc = "running"
    /\ Len(proc.stdout) < MaxOut
    /\ proc' = [proc EXCEPT !.stdout = Append(@, c)]
    /\ UNCHANGED <<installed, pc, body, formatter, cmdline, resp>>
    /\ UNCHANGED launchVars

\* the formatter exits within the timeout and subprocess.run returns
RunCompletes(returncode, stderr) ==
    /\ pc = "running"
    /\ proc' = [proc EXCEPT !.state = "exited", !.returncode = returncode, !.stderr = stderr]
    /\ resp' = Jsonify(Classify(body.code, formatter.cmd, returncode, proc.stdout, stderr))
    /\ pc' = "done"
    /\ UNCHANGED <<installed, body, formatter, cmdline>>
    /\ UNCHANGED launchVars

\* the timeout passes first: subprocess.run kills the child, waits for it and raises
RunTimesOut ==
    /\ pc = "running"
    /\ proc' = [proc EXCEPT !.state = "killed"]
    /\ resp' = Jsonify(TimedOutResult(body.code, proc.stdout))
    /\ pc' = "done"
    /\ UNCHANGED <<installed, body, formatter, cmdline>>
    /\ UNCHANGED launchVars

\* the handler has returned: the client holds the response, the locals are gone
RequestEnds ==
    /\ pc = "done"
    /\ pc' = "idle"
    /\ body' = NoBody
    /\ formatter' = NoFormatter
    /\ cmdline' = <<>>
    /\ proc' = NoProc
    /\ resp' = NoResp
    /\ UNCHANGED installed
    /\ UNCHANGED launchVars

(***************************************************************************)
(* start_background (Unix) and main                                        *)
(***************************************************************************)
ReadMax == 32

Pids == 8..MaxPid

UsedPids == {pids.launcher, pids.relay, pids.service}

\* the first n elements of a sequence
Take(s, n) == SubSeq(s, 1, IF Len(s) < n THEN Len(s) ELSE n)
Drop(s, n) == SubSeq(s, (IF Len(s) < n THEN Len(s) ELSE n) + 1, Len(s))

\* variant: the identifier read from the pipe is ignored
ReturnedPidOfFork(real_pid, pid) == pid

\* int(real_pid) if real_pid else pid
ReturnedPid(real_pid, pid) == IF real_pid # <<>> THEN ParseInt(real_pid) ELSE pid

\* os.pipe()
LauncherPipe ==
    /\ lpc = "start"
    /\ lpc' = "piped"
    /\ readers' = {"launcher"}
    /\ writers' = {"launcher"}
    /\ UNCHANGED <<rpc, spc, pipeBuf, pids, realPid, handle, wrote, failed>>
    /\ UNCHANGED fmtVars

\* os.pipe() raises OSError, which leaves start_background and main
LauncherPipeFails ==
    /\ lpc = "start"
    /\ lpc' = "raised"
    /\ failed' = "pipe"
    /\ UNCHANGED <<rpc, spc, pipeBuf, writers, readers, pids, realPid, handle, wrote>>
    /\ UNCHANGED fmtVars

\* the first os.fork(), seen from both sides
LauncherFork ==
    /\ lpc = "piped"
    /\ \E p \in Pids \ UsedPids :
         pids' = [pids EXCEPT !.relay = p]
    /\ lpc' = "forked"
    /\ rpc' = "born"
    /\ readers' = readers \cup {"relay"}
    /\ writers' = writers \cup {"relay"}
    /\ UNCHANGED <<spc, pipeBuf, realPid, handle, wrote, failed>>
    /\ UNCHANGED fmtVars

LauncherForkFails ==
    /\ lpc = "piped"
    /\ lpc' = "raised"
    /\ failed' = "fork"
    /\ readers' = {}
    /\ writers' = {}
    /\ UNCHANGED <<rpc, spc, pipeBuf, pids, realPid, handle, wrote>>
    /\ UNCHANGED fmtVars

\* os.close(write_fd) in the parent
LauncherCloseWrite ==
    /\ lpc = "forked"
    /\ lpc' = "reading"
    /\ writers' = writers \ {"launcher"}
    /\ UNCHANGED <<rpc, spc, pipeBuf, readers, pids, realPid, handle, wrote, failed>>
    /\ UNCHANGED fmtVars

\* os.read(read_fd, 32).decode().strip(): blocks until data or end of file
LauncherRead ==
    /\ lpc = "reading"
    /\ pipeBuf # <<>> \/ writers = {}
    /\ realPid' = Strip(Take(pipeBuf, ReadMax))
    /\ pipeBuf' = Drop(pipeBuf, ReadMax)
    /\ lpc' = "closing"
    /\ UNCHANGED <<rpc, spc, writers, readers, pids, handle, wrote, failed>>
    /\ UNCHANGED fmtVars

\* os.close(read_fd)
LauncherCloseRead ==
    /\ lpc = "closing"
    /\ lpc' = "waiting"
    /\ readers' = readers \ {"launcher"}
    /\ UNCHANGED <<rpc, spc, pipeBuf, writers, pids, realPid, handle, wrote, failed>>
    /\ UNCHANGED fmtVars

\* variant: the wait does not block (WNOHANG)
LauncherWaitNoHang ==
    /\ lpc = "waiting"
    /\ rpc' = IF rpc = "zombie" THEN "reaped" ELSE rpc
    /\ lpc' = "returning"
    /\ UNCHANGED <<spc, pipeBuf, writers, readers, pids, realPid, handle, wrote, failed>>
    /\ UNCHANGED fmtVars

\* os.waitpid(pid, 0): blocks until the relay has terminated, and reaps it
LauncherWait ==
    /\ lpc = "waiting"
    /\ rpc = "zombie"
    /\ rpc' = "reaped"
    /\ lpc' = "returning"
    /\ UNCHANGED <<spc, pipeBuf, writers, readers, pids, realPid, handle, wrote, failed>>
    /\ UNCHANGED fmtVars

LauncherReturn ==
    /\ lpc = "returning"
    /\ handle' = ReturnedPid(realPid, pids.relay)
    /\ lpc' = "returned"
    /\ UNCHANGED <<rpc, spc, pipeBuf, writers, readers, pids, realPid, wrote, failed>>
    /\ UNCHANGED fmtVars

\* main prints the port and the PID and ends
MainReport ==
    /\ lpc = "returned"
    /\ lpc' = "exited"
    /\ UNCHANGED <<rpc, spc, pipeBuf, writers, readers, pids, realPid, handle, wrote, failed>>
    /\ UNCHANGED fmtVars

\* os.close(read_fd) in the first child
RelayCloseRead ==
    /\ rpc = "born"
    /\ rpc' = "detaching"
    /\ readers' = readers \ {"relay"}
    /\ UNCHANGED <<lpc, spc, pipeBuf, writers, pids, realPid, handle, wrote, failed>>
    /\ UNCHANGED fmtVars

\* os.setsid()
RelaySetsid ==
    /\ rpc = "detaching"
    /\ rpc' = "session"
    /\ UNCHANGED <<lpc, spc, pipeBuf, writers, readers, pids, realPid, handle, wrote, failed>>
    /\ UNCHANGED fmtVars

\* the second os.fork(), seen from both sides
RelayFork ==
    /\ rpc = "session"
    /\ \E p \in Pids \ UsedPids :
         pids' = [pids EXCEPT !.service = p]
    /\ rpc' = "forked"
    /\ spc' = "born"
    /\ writers' = writers \cup {"service"}
    /\ UNCHANGED <<lpc, pipeBuf, readers, realPid, handle, wrote, failed>>
    /\ UNCHANGED fmtVars

\* the second os.fork() raises OSError: the relay ends with the traceback
RelayForkFails ==
    /\ rpc = "session"
    /\ rpc' = "zombie"
    /\ failed' = "fork2"
    /\ writers' = writers \ {"relay"}
    /\ UNCHANGED <<lpc, spc, pipeBuf, readers, pids, realPid, handle, wrote>>
    /\ UNCHANGED fmtVars

\* os.write(write_fd, str(pid).encode())
RelayWrite ==
    /\ rpc = "forked"
    /\ pipeBuf' = pipeBuf \o IntChars(pids.service)
    /\ wrote' = TRUE
    /\ rpc' = "written"
    /\ UNCHANGED <<lpc, spc, writers, readers, pids, realPid, handle, failed>>
    /\ UNCHANGED fmtVars

\* os.close(write_fd) in the relay
RelayCloseWrite ==
    /\ rpc = "written"
    /\ rpc' = "closed"
    /\ writers' = writers \ {"relay"}
    /\ UNCHANGED <<lpc, spc, pipeBuf, readers, pids, realPid, handle, wrote, failed>>
    /\ UNCHANGED fmtVars

\* os._exit(0)
RelayExit ==
    /\ rpc = "closed"
    /\ rpc' = "zombie"
    /\ UNCHANGED <<lpc, spc, pipeBuf, writers, readers, pids, realPid, handle, wrote, failed>>
    /\ UNCHANGED fmtVars

\* a signal ends the relay wherever it is; the kernel closes its descriptors
RelayDies ==
    /\ rpc \in {"born", "detaching", "session", "forked", "written", "closed"}
    /\ rpc' = "zombie"
    /\ writers' = writers \ {"relay"}
    /\ readers' = readers \ {"relay"}
    /\ UNCHANGED <<lpc, spc, pipeBuf, pids, realPid, handle, wrote, failed>>
    /\ UNCHANGED fmtVars

\* variant: the grandchild keeps its copy of the write end
ServiceKeepsWrite ==
    /\ spc = "born"
    /\ spc' = "detached"
    /\ UNCHANGED <<lpc, rpc, pipeBuf, writers, readers, pids, realPid, handle, wrote, failed>>
    /\ UNCHANGED fmtVars

\* os.close(write_fd) in the grandchild
ServiceCloseWrite ==
    /\ spc = "born"
    /\ spc' = "detached"
    /\ writers' = writers \ {"service"}
    /\ UNCHANGED <<lpc, rpc, pipeBuf, readers, pids, realPid, handle, wrote, failed>>
    /\ UNCHANGED fmtVars

\* flush, and dup2 of os.devnull over the standard streams
ServiceRedirect ==
    /\ spc = "detached"
    /\ spc' = "redirected"
    /\ UNCHANGED <<lpc, rpc, pipeBuf, writers, readers, pids, realPid, handle, wrote, failed>>
    /\ UNCHANGED fmtVars

\* run_server()
ServiceServe ==
    /\ spc = "redirected"
    /\ spc' = "serving"
    /\ UNCHANGED <<lpc, rpc, pipeBuf, writers, readers, pids, realPid, handle, wrote, failed>>
    /\ UNCHANGED fmtVars

\* a signal ends the service wherever it is
ServiceDies ==
    /\ spc \in {"born", "detached", "redirected", "serving"}
    /\ spc' = "dead"
    /\ writers' = writers \ {"service"}
    /\ UNCHANGED <<lpc, rpc, pipeBuf, readers, pids, realPid, handle, wrote, failed>>
    /\ UNCHANGED fmtVars

(***************************************************************************)
(* Specifications                                                          *)
(***************************************************************************)
FmtIdle ==
    /\ installed = {}
    /\ pc = "idle"
    /\ body = NoBody
    /\ formatter = NoFormatter
    /\ cmdline = <<>>
    /\ proc = NoProc
    /\ resp = NoResp

\* the launcher process has been started from a shell
InitLaunch ==
    /\ FmtIdle
    /\ lpc = "start"
    /\ rpc = "none"
    /\ spc = "none"
    /\ pipeBuf = <<>>
    /\ writers = {}
    /\ readers = {}
    /\ \E p \in Pids : pids = [launcher |-> p, relay |-> 0, service |-> 0]
    /\ realPid = <<>>
    /\ handle = 0
    /\ wrote = FALSE
    /\ failed = "none"

\* the launch is over and the service is serving
InitServing ==
    /\ FmtIdle
    /\ lpc = "exited"
    /\ rpc = "reaped"
    /\ spc = "serving"
    /\ pipeBuf = <<>>
    /\ writers = {}
    /\ readers = {}
    /\ pids = [launcher |-> 8, relay |-> 9, service |-> 10]
    /\ realPid = IntChars(10)
    /\ handle = 10
    /\ wrote = TRUE
    /\ failed = "none"

LauncherStep ==
    \/ LauncherPipe
    \/ LauncherPipeFails
    \/ LauncherFork
    \/ LauncherForkFails
    \/ LauncherCloseWrite
    \/ LauncherRead
    \/ LauncherCloseRead
    \/ LauncherWait
    \/ LauncherReturn
    \/ MainReport

RelayStep ==
    \/ RelayCloseRead
    \/ RelaySetsid
    \/ RelayFork
    \/ RelayForkFails
    \/ RelayWrite
    \/ RelayCloseWrite
    \/ RelayExit

ServiceStep ==
    \/ ServiceCloseWrite
    \/ ServiceRedirect
    \/ ServiceServe

NextLaunch ==
    \/ LauncherStep
    \/ RelayStep
    \/ ServiceStep
    \/ RelayDies
    \/ ServiceDies

SpecLaunch == InitLaunch /\ [][NextLaunch]_vars

\* every process that can take a step is eventually scheduled
FairLaunch ==
    /\ SpecLaunch
    /\ WF_vars(LauncherStep)
    /\ WF_vars(RelayStep)
    /\ WF_vars(ServiceStep)

\* request domains
ResolveCodes == {"x=1"}
ResolveLanguages == Languages \cup {"madeup", ""}
IndentTypes == {JAbsent, JStr("spaces"), JStr("tabs")}
IndentSizes == {JAbsent, JInt(10)}
OptionValues ==
    {JAbsent, JNull} \cup {JObj(t, n) : t \in IndentTypes, n \in IndentSizes}

ResolveBodies ==
    {NoBody} \cup {Body(c, l, o) : c \in ResolveCodes, l \in ResolveLanguages, o \in OptionValues}

NextResolve ==
    \/ \E p \in Programs : Install(p)
    \/ \E p \in Programs : Uninstall(p)
    \/ \E b \in ResolveBodies : FormatRequest(b)
    \/ Spawn
    \/ \E c \in {"a"} : ProcWrite(c)
    \/ \E rc \in {0}, err \in {""} : RunCompletes(rc, err)
    \/ RunTimesOut
    \/ RequestEnds

SpecResolve == InitServing /\ [][NextResolve]_vars

InvokePrograms == {"ruff", "black", "prettier"}
InvokeCodes == {"", "x=1"}
InvokeLanguages == {"python", "css", "madeup", ""}
InvokeOptions ==
    {JAbsent, JNull, JStr("fast"), JObj(JStr("tabs"), JInt(4)), JObj(JNull, JNull),
     JObj(JInt(1), JStr("wide"))}
InvokeBodies ==
    {NoBody} \cup {Body(c, l, o) : c \in InvokeCodes, l \in InvokeLanguages, o \in InvokeOptions}
OutChars == {"a", " ", "\n"}
ExitCodes == {0, 1}
ErrTexts == {"", "bad input"}

NextInvoke ==
    \/ \E p \in InvokePrograms : Install(p)
    \/ \E p \in InvokePrograms : Uninstall(p)
    \/ \E b \in InvokeBodies : FormatRequest(b)
    \/ Spawn
    \/ \E c \in OutChars : ProcWrite(c)
    \/ \E rc \in ExitCodes, err \in ErrTexts : RunCompletes(rc, err)
    \/ RunTimesOut
    \/ RequestEnds

SpecInvoke == InitServing /\ [][NextInvoke]_vars

(***************************************************************************)
(* Properties                                                              *)
(***************************************************************************)
HasLanguage(b) == b # NoBody /\ b.language # ""

NoneAvailable(language, host) ==
    \/ language \notin Languages
    \/ \A i \in 1..Len(FORMATTERS[language]) : FORMATTERS[language][i].cmd \notin host

FirstInOrder(language, host, cand) ==
    \E i \in 1..Len(FORMATTERS[language]) :
        /\ FORMATTERS[language][i] = cand
        /\ cand.cmd \in host
        /\ \A j \in 1..(i - 1) : FORMATTERS[language][j].cmd \notin host

\* C1: whenever a request with a language is taken up, what find_formatter hands to
\* format_code is fixed by the language and the programs on the search path at that
\* moment: None exactly when the language is unknown or none of its candidates is
\* installed, otherwise the candidate declared first among the installed ones. The
\* answer being a function of (language, host state) alone, two calls under the same
\* host state give the same candidate.
C1_FirstAvailable ==
    [][ (pc = "idle" /\ pc' # "idle" /\ HasLanguage(body'))
            => /\ (formatter' = NoFormatter) <=> NoneAvailable(body'.language, installed)
               /\ formatter' # NoFormatter
                    => FirstInOrder(body'.language, installed, formatter')
               /\ formatter' = NoFormatter
                    => resp' = [kind |-> "json", status |-> 200, success |-> FALSE,
                                result |-> body'.code, hasError |-> TRUE,
                                error |-> "No formatter found for " \o body'.language] ]_vars

\* two candidates are installed and the one declared first was chosen
C1_Witness ==
    /\ pc = "spawning"
    /\ body.language = "python"
    /\ {"ruff", "black"} \subseteq installed
    /\ formatter = Cand("ruff", <<"format", "-">>)

\* C2: a response to a request with a language that reports success = false carries
\* the request's code unchanged as its result; a language absent from the registry
\* gets success = false, the code, and 'No formatter found for <language>'.
C2_FailureKeepsCode ==
    (pc = "done" /\ HasLanguage(body) /\ resp.kind = "json")
        => /\ ~resp.success => resp.result = body.code /\ resp.hasError
           /\ body.language \notin Languages
                => resp = [kind |-> "json", status |-> 200, success |-> FALSE,
                           result |-> body.code, hasError |-> TRUE,
                           error |-> "No formatter found for " \o body.language]

\* the tool printed something, then rejected the input: the code comes back
C2_Witness ==
    /\ pc = "done"
    /\ proc.state = "exited"
    /\ body.code = "x=1"
    /\ proc.returncode = 1
    /\ proc.stdout = <<"\n">>
    /\ resp.kind = "json"
    /\ ~resp.success
    /\ resp.result = "x=1"

\* C4: when the timeout passes before the formatter ends, the response is exactly
\* success = false, the request's code and 'Formatter timed out', whatever the
\* process had written, and no formatter process is running once the call is over.
C4_TimedOut ==
    pc = "done"
        => /\ proc.state # "running"
           /\ proc.state = "killed"
                => resp = [kind |-> "json", status |-> 200, success |-> FALSE,
                           result |-> body.code, hasError |-> TRUE,
                           error |-> "Formatter timed out"]

\* the formatter had written output when the deadline passed
C4_Witness ==
    /\ pc = "done"
    /\ proc.state = "killed"
    /\ proc.stdout = <<"a", "a">>
    /\ body.code = "x=1"
    /\ resp.result = "x=1"

NonZeroExit == pc = "done" /\ proc.state = "exited" /\ proc.returncode # 0

\* C5 as stated: a non-zero exit with any non-empty standard output is a success
\* whose result is that output, whitespace-only output included.
C5_AnyNonEmptyOutput ==
    (NonZeroExit /\ proc.stdout # <<>>)
        => resp.success /\ resp.result = Join(proc.stdout)

\* C5 amended: a non-zero exit is a success, with the captured output unchanged as
\* the result, exactly when the output holds a character that is not whitespace;
\* empty or whitespace-only output makes it a failure that returns the code.
C5_NonBlankOutput ==
    NonZeroExit
        => IF \E i \in 1..Len(proc.stdout) : proc.stdout[i] \notin Whitespace
           THEN resp.success /\ resp.result = Join(proc.stdout) /\ ~resp.hasError
           ELSE ~resp.success /\ resp.result = body.code /\ resp.hasError

\* non-zero exit, output with leading whitespace, returned as it was captured
C5_Witness ==
    /\ NonZeroExit
    /\ proc.stdout = <<" ", "a">>
    /\ resp.success
    /\ resp.result = " a"

\* C6: every request with a body and a language ends in a JSON response; no
\* exception leaves format_code or the handler.
C6_NoEscape ==
    (pc = "done" /\ HasLanguage(body)) => resp.kind = "json"

\* the tail of a sequence after its first n elements
After(s, n) == SubSeq(s, n + 1, Len(s))
EndsWith(s, t) == Len(t) <= Len(s) /\ After(s, Len(s) - Len(t)) = t

NoIndentPrograms ==
    {"ruff", "black", "gofmt", "sqlfluff", "sql-formatter", "google-java-format"}

TabToggle ==
    [prettier |-> <<"--use-tabs">>,
     biome |-> <<"--indent-style", "tab">>,
     rustfmt |-> <<"--config", "hard_tabs=true">>]

StyleIsTabs(b) == OptionsOf(b).indentType = JStr("tabs")

\* C8: the command starts with the program and its argument template unchanged; a
\* program without indent capability gets nothing more; a program with a tab
\* toggle gets its width pair and then the toggle exactly when the style is tabs.
C8_BuiltCommand ==
    cmdline # <<>>
        => LET n == 1 + Len(formatter.args)
               rest == After(cmdline, n)
           IN  /\ SubSeq(cmdline, 1, n) = <<formatter.cmd>> \o formatter.args
               /\ formatter.cmd \in NoIndentPrograms => rest = <<>>
               /\ formatter.cmd \in DOMAIN TabToggle
                    => /\ EndsWith(rest, TabToggle[formatter.cmd]) <=> StyleIsTabs(body)
                       /\ Len(rest) = 2 + (IF StyleIsTabs(body)
                                           THEN Len(TabToggle[formatter.cmd]) ELSE 0)

\* tabs of width 10 for rustfmt
C8_Witness ==
    /\ pc = "spawning"
    /\ StyleIsTabs(body)
    /\ cmdline = <<"rustfmt", "--config", "tab_spaces=10", "--config", "hard_tabs=true">>

Returned == lpc \in {"returned", "exited"}

\* C3: the identifier start_background returns is the service's whenever the relay
\* wrote it to the pipe; it is the relay's only when the read met the end of the
\* pipe with no data; it is never the launcher's own.
C3_Handle ==
    Returned
        => /\ wrote => handle = pids.service /\ handle # pids.relay
           /\ handle = pids.relay => ~wrote /\ realPid = <<>> /\ writers = {}
           /\ handle # pids.launcher
           /\ handle \in {pids.relay, pids.service}

\* a two-digit service identifier went through the pipe
C3_Witness ==
    /\ lpc = "returned"
    /\ wrote
    /\ pids.service >= 10
    /\ handle = pids.service

\* C7: if a step of the launch before the handle fails, the launcher raises and
\* never returns or prints a process identifier.
C7_NoHandleAfterFailure ==
    failed # "none" => handle = 0 /\ ~Returned

\* C9: the launcher waits on the relay only after its read, and has returned only
\* after the relay has terminated and been reaped.
C9_ReapedBeforeReturn ==
    /\ Returned => rpc = "reaped"
    /\ rpc = "reaped" => lpc \in {"returning", "returned", "exited"}

\* the handle is out, the relay is reaped, the service is still starting
C9_Witness ==
    /\ lpc = "returned"
    /\ rpc = "reaped"
    /\ spc = "born"

\* C10: once the first fork has succeeded the launcher eventually returns, and
\* every copy of the pipe's write end is eventually closed.
C10_LauncherReturns ==
    /\ (lpc = "forked") ~> Returned
    /\ (lpc = "forked") ~> (writers = {})

\* the relay died before writing, the launcher returned, the service serves
C10_Witness ==
    /\ Returned
    /\ ~wrote
    /\ failed = "none"
    /\ spc = "serving"

====
